---- MODULE Spec2Model ----
(***************************************************************************)
(* RetroVinyls server (src/index.js): the one-shot database connection     *)
(* made by startServer, the topology probe isDatabaseConnected, and the    *)
(* Express route handlers over the "vinyls" collection.                    *)
(*                                                                         *)
(* Node runs one handler segment at a time: a handler runs from its start  *)
(* (or from the resolution of the promise it awaits) to its next await.    *)
(* Each action below is one such segment; a segment that resumes after a   *)
(* driver call also carries the effect of that call on the collection.     *)
(***************************************************************************)
EXTENDS Integers, Sequences, FiniteSets, Bags, TLC

(***************************************************************************)
(* Bounds of the model.                                                    *)
(***************************************************************************)
\* requests that may be suspended at an await at the same time
MaxReqs == 2
\* documents POST /api/items may create in one run (caps the id counter)
MaxItems == 1

(***************************************************************************)
(* Values of the environment.                                              *)
(***************************************************************************)
\* new Date().getFullYear() at src/index.js:494
CurrentYear == 2026
\* sampleVinyls holds eight records (src/index.js:195-316)
SampleCount == 8

(***************************************************************************)
(* JavaScript values of a request body.  A string is a sequence of         *)
(* characters, " " being whitespace; numbers are integers here.            *)
(***************************************************************************)
Undef == [t |-> "undefined", n |-> 0, s |-> <<>>]
Null == [t |-> "null", n |-> 0, s |-> <<>>]
NaN == [t |-> "nan", n |-> 0, s |-> <<>>]
Num(x) == [t |-> "number", n |-> x, s |-> <<>>]
Str(x) == [t |-> "string", n |-> 0, s |-> x]
Bool(b) == [t |-> "boolean", n |-> IF b THEN 1 ELSE 0, s |-> <<>>]

\* JavaScript truthiness: undefined, null, NaN, 0, "" and false are falsy
Truthy(v) ==
  CASE v.t = "number" -> v.n # 0
    [] v.t = "string" -> v.s # <<>>
    [] v.t = "boolean" -> v.n = 1
    [] OTHER -> FALSE

RECURSIVE TrimStart(_)
TrimStart(s) == IF s # <<>> /\ Head(s) = " " THEN TrimStart(Tail(s)) ELSE s

RECURSIVE TrimEnd(_)
TrimEnd(s) ==
  IF s # <<>> /\ s[Len(s)] = " " THEN TrimEnd(SubSeq(s, 1, Len(s) - 1)) ELSE s

\* String.prototype.trim
Trim(s) == TrimEnd(TrimStart(s))

\* Number(v) as the handler applies it
ToNumber(v) ==
  CASE v.t = "number" -> v
    [] v.t = "boolean" -> Num(v.n)
    [] v.t = "null" -> Num(0)
    [] v.t = "string" -> IF Trim(v.s) = <<>> THEN Num(0)
                         ELSE IF Trim(v.s) = <<"7">> THEN Num(7) ELSE NaN
    [] OTHER -> NaN

\* the default of the condition field
NearMint == Str(<<"N", "e", "a", "r", " ", "M", "i", "n", "t">>)

(***************************************************************************)
(* POST /api/items: validation and construction of the new record.         *)
(***************************************************************************)
\* the keys of requiredFields, in the order Object.entries yields them
RequiredFields ==
  <<"name", "artist", "description", "price", "image", "genre", "year">>

\* the fields the handler calls .trim() on when it builds newVinyl
TrimmedFields == {"name", "artist", "description", "image", "genre"}

\* !value || (typeof value === 'string' && !value.trim())
IsMissing(v) == ~Truthy(v) \/ (v.t = "string" /\ Trim(v.s) = <<>>)

\* the required keys that are missing, in order
MissingFields(body) == SelectSeq(RequiredFields, LAMBDA k : IsMissing(body[k]))

\* typeof price !== 'number' || price <= 0
InvalidPrice(body) == body.price.t # "number" \/ body.price.n <= 0

\* InvalidYear without the lower limit
InvalidYear_NoLowerLimit(body) ==
  body.year.t # "number" \/ body.year.n > CurrentYear

\* typeof year !== 'number' || year < 1900 || year > new Date().getFullYear()
InvalidYear(body) ==
  \/ body.year.t # "number"
  \/ body.year.n < 1900
  \/ body.year.n > CurrentYear

\* typeof rating !== 'number' || rating < 1 || rating > 5
InvalidRating(body) ==
  \/ body.rating.t # "number"
  \/ body.rating.n < 1
  \/ body.rating.n > 5

\* The 400 answer of the validation block, or status 0 when the body passes.
ValidatePayload(body) ==
  IF MissingFields(body) # <<>>
    THEN [status |-> 400, error |-> "Missing required fields",
          missingFields |-> MissingFields(body)]
  ELSE IF InvalidPrice(body)
    THEN [status |-> 400, error |-> "Invalid price", missingFields |-> <<>>]
  ELSE IF InvalidYear(body)
    THEN [status |-> 400, error |-> "Invalid year", missingFields |-> <<>>]
  ELSE IF InvalidRating(body)
    THEN [status |-> 400, error |-> "Invalid rating", missingFields |-> <<>>]
  ELSE [status |-> 0, error |-> "", missingFields |-> <<>>]

\* name.trim() and its like throw a TypeError on a truthy value that is no string
TrimThrows(body) == \E f \in TrimmedFields : body[f].t # "string"

\* NewVinyl that stores the name as it came, untrimmed
NewVinyl_NameUntrimmed(body) ==
  [name |-> body.name,
   artist |-> Str(Trim(body.artist.s)),
   description |-> Str(Trim(body.description.s)),
   price |-> ToNumber(body.price),
   originalPrice |-> IF Truthy(body.originalPrice)
                       THEN ToNumber(body.originalPrice) ELSE Null,
   image |-> Str(Trim(body.image.s)),
   genre |-> Str(Trim(body.genre.s)),
   year |-> ToNumber(body.year),
   condition |-> IF Truthy(body.condition) THEN body.condition ELSE NearMint,
   rating |-> ToNumber(body.rating),
   inStock |-> Bool(Truthy(body.inStock))]

\* the newVinyl object (createdAt and updatedAt, two clock readings, are left out)
NewVinyl(body) ==
  [name |-> Str(Trim(body.name.s)),
   artist |-> Str(Trim(body.artist.s)),
   description |-> Str(Trim(body.description.s)),
   price |-> ToNumber(body.price),
   originalPrice |-> IF Truthy(body.originalPrice)
                       THEN ToNumber(body.originalPrice) ELSE Null,
   image |-> Str(Trim(body.image.s)),
   genre |-> Str(Trim(body.genre.s)),
   year |-> ToNumber(body.year),
   condition |-> IF Truthy(body.condition) THEN body.condition ELSE NearMint,
   rating |-> ToNumber(body.rating),
   inStock |-> Bool(Truthy(body.inStock))]

(***************************************************************************)
(* The request bodies the model sends: a well-formed body and the bodies   *)
(* that differ from it in one field, or in two.                            *)
(***************************************************************************)
Word == Str(<<"a">>)
Padded == Str(<<" ", "a", " ">>)
Blank == Str(<<" ">>)

GoodBody ==
  [name |-> Word, artist |-> Word, description |-> Word, price |-> Num(10),
   originalPrice |-> Undef, image |-> Word, genre |-> Word, year |-> Num(1973),
   condition |-> Undef, rating |-> Num(5), inStock |-> Undef]

\* every optional field given
FullBody ==
  [GoodBody EXCEPT !.originalPrice = Num(20), !.condition = Str(<<"M">>),
                   !.inStock = Bool(TRUE)]

Bodies ==
  {GoodBody, FullBody}
  \cup {[GoodBody EXCEPT !.name = v] : v \in {Undef, Blank, Padded, Num(42)}}
  \cup {[GoodBody EXCEPT ![f] = Undef] :
          f \in {"artist", "description", "image", "genre"}}
  \cup {[GoodBody EXCEPT !.price = v] : v \in {Undef, Num(0), Num(-5), Str(<<"7">>)}}
  \cup {[GoodBody EXCEPT !.year = v] :
          v \in {Undef, Num(1850), Num(CurrentYear + 1), Str(<<"7">>)}}
  \cup {[GoodBody EXCEPT !.rating = v] : v \in {Undef, Num(0), Num(6)}}
  \cup {[GoodBody EXCEPT !.inStock = Bool(FALSE)]}
  \cup {[GoodBody EXCEPT !.price = Num(-5), !.year = Num(1850)],
        [GoodBody EXCEPT !.name = Undef, !.price = Num(-5)]}

(***************************************************************************)
(* Documents and the driver calls on the collection.                       *)
(***************************************************************************)
NoValue == [none |-> TRUE]

\* error.message of what a handler's catch block caught
NetworkError == [message |-> "MongoNetworkError"]
DuplicateKey == [message |-> "E11000 duplicate key"]
TypeError == [message |-> "TypeError"]
\* db.collection(...) while db is null
NullDeref == [message |-> "Cannot read properties of null"]

\* the ids insertMany gives the sample records: the driver writes _id into
\* each object of sampleVinyls that has none, so later calls reuse them
SampleId(i) == 0 - i

\* sampleVinyls, as insertMany sends it
SampleDocs == [i \in 1..SampleCount |-> [id |-> SampleId(i), data |-> [sample |-> i]]]

\* req.params.id: a string that is no ObjectId, or 24 hex digits naming one
BadId == [valid |-> FALSE, oid |-> 0]
Hex(i) == [valid |-> TRUE, oid |-> i]

\* ObjectId.isValid taken to accept every string
ObjectIdIsValid_Any(id) == TRUE

\* ObjectId.isValid(id)
ObjectIdIsValid(id) == id.valid

\* collection.findOne({ _id: new ObjectId(id) }): the document, or NoValue (null)
FindOne(coll, oid) ==
  IF \E d \in coll : d.id = oid THEN (CHOOSE d \in coll : d.id = oid) ELSE NoValue

\* An ordered insertMany: documents go in one by one, up to the first one
\* whose _id is already in the collection (a duplicate-key error).
RECURSIVE InsertMany(_, _)
InsertMany(coll, docs) ==
  IF docs = <<>> THEN [coll |-> coll, ok |-> TRUE]
  ELSE IF \E d \in coll : d.id = Head(docs).id THEN [coll |-> coll, ok |-> FALSE]
  ELSE InsertMany(coll \cup {Head(docs)}, Tail(docs))

(***************************************************************************)
(* State.                                                                  *)
(***************************************************************************)
VARIABLES
  nodeEnv,      \* process.env.NODE_ENV
  client,       \* "null" or "MongoClient"
  db,           \* "null" or "Db"
  isConnected,  \* the module's flag
  topology,     \* client.topology: "none" (undefined), "connected", "lost"
  pc,           \* where startServer is
  proc,         \* "running" or "exited"
  dbConnected,  \* what connectToDatabase returned to startServer
  attempts,     \* calls of connectToDatabase so far
  inflight,     \* calls of connectToDatabase that have not returned
  tries,        \* runs of the try block (new client, connect, ping) in the call
  sampleIds,    \* whether the objects of sampleVinyls carry an _id
  vinyls,       \* the documents of the "vinyls" collection
  nextId,       \* the next _id insertOne generates
  pending,      \* the requests suspended at an await (a bag)
  sent,         \* the response just written, until it is on the wire
  posted        \* id -> the body POST /api/items answered 201 for

vars ==
  <<nodeEnv, client, db, isConnected, topology, pc, proc, dbConnected, attempts,
    inflight, tries, sampleIds, vinyls, nextId, pending, sent, posted>>

conn == <<client, db, isConnected, topology>>
boot == <<pc, dbConnected, attempts, inflight, tries>>
store == <<sampleIds, vinyls, nextId, posted>>

NoSent == [route |-> "", status |-> 0, error |-> "", arg |-> NoValue, data |-> NoValue]

Response(route, status, error, arg, data) ==
  [route |-> route, status |-> status, error |-> error, arg |-> arg, data |-> data]

Request(route, at, arg, oid) == [route |-> route, pc |-> at, arg |-> arg, oid |-> oid]

Suspend(r) == pending (+) SetToBag({r})
Resume(r) == pending (-) SetToBag({r})

Init ==
  /\ nodeEnv \in {"development", "production"}
  /\ client = "null"
  /\ db = "null"
  /\ isConnected = FALSE
  /\ topology = "none"
  /\ pc = "start"
  /\ proc = "running"
  /\ dbConnected = FALSE
  /\ attempts = 0
  /\ inflight = 0
  /\ tries = 0
  /\ sampleIds = FALSE
  /\ vinyls = {}
  /\ nextId = 1
  /\ pending = EmptyBag
  /\ sent = NoSent
  /\ posted = [i \in 1..MaxItems |-> NoValue]

\* The process is alive and idle.  One segment runs at a time, and the
\* response a segment wrote is taken off (Deliver) before the next one runs,
\* so that `sent' always shows the answer of the step just taken.
Running == proc = "running" /\ sent = NoSent

(***************************************************************************)
(* connectToDatabase and startServer.                                      *)
(***************************************************************************)
\* ConnectCatch with a bounded retry: the try block is run again, up to 3 times
ConnectCatch_Retry ==
  IF tries < 3
    THEN /\ isConnected' = FALSE
         /\ tries' = tries + 1
         /\ pc' = "construct"
         /\ UNCHANGED <<dbConnected, inflight, attempts>>
    ELSE /\ isConnected' = FALSE
         /\ dbConnected' = FALSE
         /\ inflight' = inflight - 1
         /\ pc' = "returned"
         /\ UNCHANGED <<attempts, tries>>

\* the catch block of connectToDatabase: the flag is cleared, false is returned
ConnectCatch ==
  /\ isConnected' = FALSE
  /\ dbConnected' = FALSE
  /\ inflight' = inflight - 1
  /\ pc' = "returned"
  /\ UNCHANGED <<attempts, tries>>

\* startServer calls connectToDatabase, which enters its try block
StartServer ==
  /\ Running /\ pc = "start"
  /\ attempts' = attempts + 1
  /\ inflight' = inflight + 1
  /\ tries' = 1
  /\ pc' = "construct"
  /\ sent' = NoSent
  /\ UNCHANGED <<nodeEnv, conn, proc, dbConnected, store, pending>>

\* client = new MongoClient(...), which throws on a malformed URI; then
\* client.connect() is called and awaited
NewMongoClient ==
  /\ Running /\ pc = "construct"
  /\ \E built \in BOOLEAN :
       IF built
         THEN /\ client' = "MongoClient"
              /\ pc' = "connect"
              /\ UNCHANGED <<isConnected, dbConnected, attempts, inflight, tries>>
         ELSE /\ ConnectCatch
              /\ UNCHANGED client
  /\ sent' = NoSent
  /\ UNCHANGED <<nodeEnv, db, topology, proc, store, pending>>

\* client.connect() settles; on success the ping is sent and awaited
ClientConnect ==
  /\ Running /\ pc = "connect"
  /\ \E connected \in BOOLEAN :
       IF connected
         THEN /\ topology' = "connected"
              /\ pc' = "ping"
              /\ UNCHANGED <<isConnected, dbConnected, attempts, inflight, tries>>
         ELSE /\ ConnectCatch
              /\ UNCHANGED topology
  /\ sent' = NoSent
  /\ UNCHANGED <<nodeEnv, client, db, proc, store, pending>>

\* the ping settles; on success db and the flag are set and true is returned
Ping ==
  /\ Running /\ pc = "ping"
  /\ \E ponged \in BOOLEAN :
       IF ponged
         THEN /\ db' = "Db"
              /\ isConnected' = TRUE
              /\ dbConnected' = TRUE
              /\ inflight' = inflight - 1
              /\ pc' = "returned"
              /\ UNCHANGED <<attempts, tries>>
         ELSE /\ ConnectCatch
              /\ UNCHANGED db
  /\ sent' = NoSent
  /\ UNCHANGED <<nodeEnv, client, topology, proc, store, pending>>

\* Listen for a server that gives up when there is no database
Listen_OnlyIfConnected ==
  /\ Running /\ pc = "returned" /\ dbConnected
  /\ pc' = "listening"
  /\ sent' = NoSent
  /\ UNCHANGED <<nodeEnv, conn, proc, dbConnected, attempts, inflight, tries,
                 store, pending>>

\* startServer goes on, whatever was returned: app.listen(PORT)
Listen ==
  /\ Running /\ pc = "returned"
  /\ pc' = "listening"
  /\ sent' = NoSent
  /\ UNCHANGED <<nodeEnv, conn, proc, dbConnected, attempts, inflight, tries,
                 store, pending>>

\* isDatabaseConnected without the look at the flag
isDatabaseConnected_NoFlag == client # "null" /\ topology = "connected"

\* isDatabaseConnected without the look at the topology
isDatabaseConnected_FlagOnly == client # "null" /\ isConnected

\* client && isConnected && client.topology && client.topology.isConnected()
isDatabaseConnected ==
  client # "null" /\ isConnected /\ topology # "none" /\ topology = "connected"

(***************************************************************************)
(* The driver's topology, and the SIGINT handler.                          *)
(***************************************************************************)
\* the driver reports the topology as no longer connected
TopologyLost ==
  /\ Running /\ topology = "connected"
  /\ topology' = "lost"
  /\ sent' = NoSent
  /\ UNCHANGED <<nodeEnv, client, db, isConnected, proc, boot, store, pending>>

\* the driver reports the topology as connected again
TopologyRestored ==
  /\ Running /\ topology = "lost"
  /\ topology' = "connected"
  /\ sent' = NoSent
  /\ UNCHANGED <<nodeEnv, client, db, isConnected, proc, boot, store, pending>>

\* SIGINT: client.close() if client && isConnected, then process.exit(0);
\* the requests still suspended die with the process
Sigint ==
  /\ Running
  /\ proc' = "exited"
  /\ topology' = IF client # "null" /\ isConnected THEN "lost" ELSE topology
  /\ pending' = EmptyBag
  /\ sent' = NoSent
  /\ UNCHANGED <<nodeEnv, client, db, isConnected, boot, store>>

\* a request can be served once the server listens
Serving == Running /\ pc = "listening"

\* the response written by the last step goes out
Deliver ==
  /\ proc = "running" /\ sent # NoSent
  /\ sent' = NoSent
  /\ UNCHANGED <<nodeEnv, conn, proc, boot, store, pending>>

(***************************************************************************)
(* Route handlers.                                                         *)
(***************************************************************************)
\* NotConnected with a lazy reconnect: the handler calls connectToDatabase
NotConnected_Reconnect(route, arg) ==
  /\ sent' = Response(route, 503, "Database not connected", arg, NoValue)
  /\ attempts' = attempts + 1
  /\ inflight' = inflight + 1
  /\ UNCHANGED <<conn, pc, dbConnected, tries, store, pending>>

\* the 503 every data route answers when isDatabaseConnected() is false
NotConnected(route, arg) ==
  /\ sent' = Response(route, 503, "Database not connected", arg, NoValue)
  /\ UNCHANGED <<conn, boot, store, pending>>

\* GET /health
GetHealth ==
  /\ Serving
  /\ sent' = Response("health", IF isDatabaseConnected THEN 200 ELSE 503, "",
                      NoValue,
                      [dbStatus |-> IF isDatabaseConnected THEN "connected"
                                    ELSE IF client # "null" THEN "connection_lost"
                                    ELSE "disconnected"])
  /\ UNCHANGED <<nodeEnv, conn, proc, boot, store, pending>>

\* POST /api/seed, up to its first await: the check, then deleteMany({})
PostSeed ==
  /\ Serving
  /\ BagCardinality(pending) < MaxReqs
  /\ IF ~isDatabaseConnected
       THEN NotConnected("seed", NoValue)
     ELSE IF db = "null"
       THEN /\ sent' = Response("seed", 500, "Seeding failed", NoValue, NullDeref)
            /\ UNCHANGED <<conn, boot, store, pending>>
     ELSE /\ pending' = Suspend(Request("seed", "deleteMany", NoValue, 0))
          /\ sent' = NoSent
          /\ UNCHANGED <<conn, boot, store>>
  /\ UNCHANGED <<nodeEnv, proc>>

\* deleteMany({}) settles; on success insertMany(sampleVinyls) is called,
\* which gives every sample record without an _id one
SeedDeleteMany ==
  /\ Serving
  /\ \E r \in BagToSet(pending) :
       /\ r.route = "seed" /\ r.pc = "deleteMany"
       /\ \E deleted \in BOOLEAN :
            IF deleted
              THEN /\ vinyls' = {}
                   /\ sampleIds' = TRUE
                   /\ pending' = Suspend(Request("seed", "insertMany", NoValue, 0))
                                   (-) SetToBag({r})
                   /\ sent' = NoSent
              ELSE /\ pending' = Resume(r)
                   /\ sent' = Response("seed", 500, "Seeding failed", NoValue,
                                       NetworkError)
                   /\ UNCHANGED <<vinyls, sampleIds>>
  /\ UNCHANGED <<nodeEnv, conn, proc, boot, nextId, posted>>

\* insertMany(sampleVinyls) settles; the handler answers 200 with the count
SeedInsertMany ==
  /\ Serving
  /\ \E r \in BagToSet(pending) :
       /\ r.route = "seed" /\ r.pc = "insertMany"
       /\ pending' = Resume(r)
       /\ \E reached \in BOOLEAN :
            LET result == InsertMany(vinyls, SampleDocs) IN
            IF reached
              THEN /\ vinyls' = result.coll
                   /\ sent' = IF result.ok
                                THEN Response("seed", 200, "", NoValue,
                                              [insertedCount |-> SampleCount])
                                ELSE Response("seed", 500, "Seeding failed",
                                              NoValue, DuplicateKey)
              ELSE /\ sent' = Response("seed", 500, "Seeding failed", NoValue,
                                       NetworkError)
                   /\ UNCHANGED vinyls
  /\ UNCHANGED <<nodeEnv, conn, proc, boot, sampleIds, nextId, posted>>

\* GET /api/items, up to its await: the check, then find({}).toArray()
GetItems ==
  /\ Serving
  /\ BagCardinality(pending) < MaxReqs
  /\ IF ~isDatabaseConnected
       THEN NotConnected("items", NoValue)
     ELSE IF db = "null"
       THEN /\ sent' = Response("items", 500, "Failed to fetch items", NoValue, NullDeref)
            /\ UNCHANGED <<conn, boot, store, pending>>
     ELSE /\ pending' = Suspend(Request("items", "find", NoValue, 0))
          /\ sent' = NoSent
          /\ UNCHANGED <<conn, boot, store>>
  /\ UNCHANGED <<nodeEnv, proc>>

\* find({}).toArray() settles
GetItemsFind ==
  /\ Serving
  /\ \E r \in BagToSet(pending) :
       /\ r.route = "items" /\ r.pc = "find"
       /\ pending' = Resume(r)
       /\ \E found \in BOOLEAN :
            sent' = IF found
                      THEN Response("items", 200, "", NoValue,
                                    [count |-> Cardinality(vinyls)])
                      ELSE Response("items", 500, "Failed to fetch items",
                                    NoValue, NetworkError)
  /\ UNCHANGED <<nodeEnv, conn, proc, boot, store>>

\* the ids a client asks for: a malformed one, one that was never given out,
\* and the ids POST /api/items has answered
KnownIds == {BadId, Hex(0)} \cup {Hex(i) : i \in {j \in 1..MaxItems : posted[j] # NoValue}}

\* GET /api/items/:id, up to its await: the check, the id format, then findOne
GetItemById ==
  /\ Serving
  /\ BagCardinality(pending) < MaxReqs
  /\ \E id \in KnownIds :
       IF ~isDatabaseConnected
         THEN NotConnected("item", id)
       ELSE IF ~ObjectIdIsValid(id)
         THEN /\ sent' = Response("item", 400, "Invalid ID format", id, NoValue)
              /\ UNCHANGED <<conn, boot, store, pending>>
       ELSE IF db = "null"
         THEN /\ sent' = Response("item", 500, "Failed to fetch item", id, NullDeref)
              /\ UNCHANGED <<conn, boot, store, pending>>
       ELSE /\ pending' = Suspend(Request("item", "findOne", id, id.oid))
            /\ sent' = NoSent
            /\ UNCHANGED <<conn, boot, store>>
  /\ UNCHANGED <<nodeEnv, proc>>

\* findOne settles: 404 when there is no such document, 200 with it otherwise
GetItemByIdFindOne ==
  /\ Serving
  /\ \E r \in BagToSet(pending) :
       /\ r.route = "item" /\ r.pc = "findOne"
       /\ pending' = Resume(r)
       /\ \E found \in BOOLEAN :
            LET item == FindOne(vinyls, r.oid) IN
            sent' = IF ~found
                      THEN Response("item", 500, "Failed to fetch item", r.arg,
                                    NetworkError)
                    ELSE IF item = NoValue
                      THEN Response("item", 404, "Item not found", r.arg, NoValue)
                    ELSE Response("item", 200, "", r.arg, item.data)
  /\ UNCHANGED <<nodeEnv, conn, proc, boot, store>>

\* POST /api/items, up to its await: the check, the validation, newVinyl,
\* then insertOne(newVinyl), for which the driver generates the _id
PostItems ==
  /\ Serving
  /\ BagCardinality(pending) < MaxReqs
  /\ \E body \in Bodies :
       IF ~isDatabaseConnected
         THEN NotConnected("create", body)
       ELSE IF ValidatePayload(body).status = 400
         THEN /\ sent' = Response("create", 400, ValidatePayload(body).error, body,
                                  [missingFields |-> ValidatePayload(body).missingFields])
              /\ UNCHANGED <<conn, boot, store, pending>>
       ELSE IF TrimThrows(body) \/ db = "null"
         THEN /\ sent' = Response("create", 500, "Failed to add item", body,
                                  IF TrimThrows(body) THEN TypeError ELSE NullDeref)
              /\ UNCHANGED <<conn, boot, store, pending>>
       ELSE /\ nextId <= MaxItems
            /\ pending' = Suspend(Request("create", "insertOne", body, nextId))
            /\ nextId' = nextId + 1
            /\ sent' = NoSent
            /\ UNCHANGED <<conn, boot, sampleIds, vinyls, posted>>
  /\ UNCHANGED <<nodeEnv, proc>>

\* insertOne settles; the handler answers 201 with the record and its _id
PostItemsInsertOne ==
  /\ Serving
  /\ \E r \in BagToSet(pending) :
       /\ r.route = "create" /\ r.pc = "insertOne"
       /\ pending' = Resume(r)
       /\ \E inserted \in BOOLEAN :
            IF inserted
              THEN /\ vinyls' = vinyls \cup {[id |-> r.oid, data |-> NewVinyl(r.arg)]}
                   /\ posted' = [posted EXCEPT ![r.oid] = r.arg]
                   /\ sent' = Response("create", 201, "", r.arg,
                                       [id |-> r.oid, data |-> NewVinyl(r.arg)])
              ELSE /\ sent' = Response("create", 500, "Failed to add item", r.arg,
                                       NetworkError)
                   /\ UNCHANGED <<vinyls, posted>>
  /\ UNCHANGED <<nodeEnv, conn, proc, boot, sampleIds, nextId>>

Next ==
  \/ StartServer
  \/ NewMongoClient
  \/ ClientConnect
  \/ Ping
  \/ Listen
  \/ TopologyLost
  \/ TopologyRestored
  \/ Sigint
  \/ Deliver
  \/ GetHealth
  \/ PostSeed
  \/ SeedDeleteMany
  \/ SeedInsertMany
  \/ GetItems
  \/ GetItemsFind
  \/ GetItemById
  \/ GetItemByIdFindOne
  \/ PostItems
  \/ PostItemsInsertOne

Spec == Init /\ [][Next]_vars

(***************************************************************************)
(* Claims.                                                                 *)
(***************************************************************************)
DataRoutes == {"seed", "items", "item", "create"}

C3_ResetOnFailure ==
  /\ isConnected => dbConnected
  /\ (pc \in {"returned", "listening"} /\ ~dbConnected) =>
       client = "null" /\ db = "null" /\ ~isConnected

\* C4 as claimed: once the connection made at startup is lost, a request that
\* needs the database starts a new connect (and does not use the old handle).
C4_ReconnectOnLoss ==
  (sent.route \in DataRoutes /\ sent.status = 503 /\ isConnected) =>
    (attempts > 1 \/ inflight > 0)

\* C5: GET /health answers 200 exactly when the client is there, the flag is
\* true and the topology reports connected, and 503 otherwise; answering it
\* changes none of client, db and isConnected.
C5_HealthReportsConnection ==
  /\ [](sent.route = "health" =>
          /\ sent.status \in {200, 503}
          /\ sent.status = 200 <=>
               (client = "MongoClient" /\ isConnected /\ topology = "connected"))
  /\ [][sent'.route = "health" => UNCHANGED <<client, db, isConnected>>]_vars

\* /health answered 503 for a connection that was made and then lost
C5_Witness ==
  sent.route = "health" /\ sent.status = 503 /\ isConnected /\ topology = "lost"

\* C6 as claimed: in production mode every POST /api/seed is answered 403 and
\* neither deleteMany nor insertMany is issued.
C6_SeedForbiddenInProduction ==
  nodeEnv = "production" =>
    /\ sent.route = "seed" => sent.status = 403
    /\ \A r \in BagToSet(pending) : r.route # "seed"

\* C7 as claimed: a request that meets a connection error, also in a driver
\* call made after its connectivity check passed, is answered 503, and the
\* process lives on.
C7_ConnectionErrorIs503 ==
  (sent.route \in DataRoutes /\ sent.data = NetworkError) =>
    (sent.status = 503 /\ proc = "running")

\* The fields of a body that break a rule of the record: a required field
\* that is absent, empty or blank, a price that is no positive number, a year
\* that is no number in 1900..current year, a rating that is no number in 1..5.
Offending(body) ==
  {f \in {"name", "artist", "description", "image", "genre"} :
     body[f].t \in {"undefined", "null"}
       \/ (body[f].t = "string" /\ \A i \in 1..Len(body[f].s) : body[f].s[i] = " ")}
  \cup {f \in {"price"} : body.price.t # "number" \/ ~(body.price.n > 0)}
  \cup {f \in {"year"} :
          body.year.t # "number" \/ ~(body.year.n \in 1900..CurrentYear)}
  \cup {f \in {"rating"} : body.rating.t # "number" \/ ~(body.rating.n \in 1..5)}

\* the fields a 400 answer of POST /api/items names
Named(r) ==
  CASE r.error = "Missing required fields" ->
         {r.data.missingFields[i] : i \in 1..Len(r.data.missingFields)}
    [] r.error = "Invalid price" -> {"price"}
    [] r.error = "Invalid year" -> {"year"}
    [] r.error = "Invalid rating" -> {"rating"}
    [] OTHER -> {}

\* C8 as amended: a POST /api/items whose body breaks a rule is answered 400
\* naming offending fields (price for price: -5, year for year: 1850) when the
\* database is connected, and 503 when it is not; either way no insertOne is
\* issued for it and the collection is left as it was.
C8_InvalidBodyRejected ==
  /\ [](/\ (sent.route = "create" /\ Offending(sent.arg) # {}) =>
             /\ sent.status = IF client = "MongoClient" /\ isConnected
                                   /\ topology = "connected" THEN 400 ELSE 503
             /\ sent.status = 400 =>
                  Named(sent) # {} /\ Named(sent) \subseteq Offending(sent.arg)
        /\ \A r \in BagToSet(pending) : r.route = "create" => Offending(r.arg) = {}
        /\ \A d \in vinyls : d.id > 0 => Offending(posted[d.id]) = {})
  /\ [][(sent'.route = "create" /\ Offending(sent'.arg) # {}) =>
          UNCHANGED <<vinyls, pending, nextId>>]_vars

\* year: 1850 was answered 400 "Invalid year"
C8_Witness ==
  /\ sent.route = "create" /\ sent.status = 400 /\ sent.error = "Invalid year"
  /\ sent.arg.year = Num(1850)

\* C8 as claimed: every POST /api/items whose body breaks a rule is answered
\* 400 naming the offending field.
C8_InvalidBodyIs400 ==
  (sent.route = "create" /\ Offending(sent.arg) # {}) =>
    (sent.status = 400 /\ Named(sent) # {} /\ Named(sent) \subseteq Offending(sent.arg))

\* C9 as amended: a GET /api/items/:id whose id is no ObjectId is answered 400
\* when the database is connected and 503 when it is not; findOne is never
\* called for it.
C9_InvalidIdRejected ==
  /\ (sent.route = "item" /\ ~sent.arg.valid) =>
       sent.status = IF client = "MongoClient" /\ isConnected
                         /\ topology = "connected" THEN 400 ELSE 503
  /\ \A r \in BagToSet(pending) : r.route = "item" => r.arg.valid

\* a malformed id was answered 400
C9_Witness == sent.route = "item" /\ sent.arg = BadId /\ sent.status = 400

\* C9 as claimed: every GET /api/items/:id whose id is no ObjectId is
\* answered 400.
C9_InvalidIdIs400 == (sent.route = "item" /\ ~sent.arg.valid) => sent.status = 400

\* `short' is `long' without its leading and trailing whitespace
Stripped(long, short) ==
  /\ short # <<>> => (Head(short) # " " /\ short[Len(short)] # " ")
  /\ \E i \in 0..Len(long) : \E j \in i..Len(long) :
       /\ short = SubSeq(long, i + 1, j)
       /\ \A k \in (1..i) \cup ((j + 1)..Len(long)) : long[k] = " "

\* the record GET returns holds what was submitted: the strings without the
\* whitespace around them, the numbers as they were
SameAsSubmitted(body, data) ==
  /\ \A f \in {"name", "artist", "description", "image", "genre"} :
       data[f].t = "string" /\ Stripped(body[f].s, data[f].s)
  /\ data.price = body.price /\ data.year = body.year /\ data.rating = body.rating
  /\ body.originalPrice.t = "number" /\ body.originalPrice.n # 0 =>
       data.originalPrice = body.originalPrice
  /\ body.condition.t = "string" /\ body.condition.s # <<>> =>
       data.condition = body.condition
  /\ body.inStock.t = "boolean" => data.inStock = body.inStock

C11_SeedReplacesAll ==
  (sent.route = "seed" /\ sent.status = 200) =>
    vinyls = {SampleDocs[i] : i \in 1..SampleCount}

\* C12 as claimed: a record created without inStock is stored with inStock
\* true, and one created without condition with condition "Near Mint".
C12_DefaultsApplied ==
  \A d \in vinyls :
    d.id > 0 =>
      /\ posted[d.id].inStock = Undef => d.data.inStock = Bool(TRUE)
      /\ posted[d.id].condition = Undef => d.data.condition = NearMint

\* C13: whenever the flag is true, client and db are both set; a handler
\* reaches db.collection only in a step in which the connectivity check has
\* just passed, with db set, so no request ever dereferences a null db.
C13_NullSafety ==
  /\ [](/\ isConnected => (client = "MongoClient" /\ db = "Db")
        /\ sent.data # NullDeref)
  /\ [][BagCardinality(pending') > BagCardinality(pending) =>
          /\ client = "MongoClient" /\ isConnected /\ topology = "connected"
          /\ db = "Db"]_vars

\* a handler went through db.collection and waits for its driver call, while
\* the topology has since been lost
C13_Witness == pending # EmptyBag /\ isConnected /\ topology = "lost"

\* C14: connectToDatabase is called exactly once in the life of the process,
\* by startServer, and the server goes on to listen whatever it returned; if
\* it returned false the flag stays false from then on, so every request to
\* /api/seed, /api/items, /api/items/:id and /health is answered 503,
\* whatever its payload, and no driver call is made on the collection.
C14_FailedStartupStays503 ==
  /\ attempts <= 1
  /\ pc # "start" => attempts = 1
  /\ (pc = "returned" /\ proc = "running") => ENABLED Listen
  /\ (pc \in {"returned", "listening"} /\ ~dbConnected) =>
       /\ ~isConnected
       /\ sent.route \in DataRoutes \cup {"health"} => sent.status = 503
       /\ pending = EmptyBag
       /\ vinyls = {} /\ ~sampleIds /\ nextId = 1

\* the startup connect failed, the server listens, and a well-formed POST
\* /api/items was answered 503
C14_Witness ==
  /\ pc = "listening" /\ ~dbConnected /\ attempts = 1
  /\ sent.route = "create" /\ sent.arg = GoodBody /\ sent.status = 503

====
